---- MODULE Spec2Model ----
(***************************************************************************)
(* Model of package response (src/response.go): the unified response       *)
(* envelope written through a gin context, the request-id lookup, and the  *)
(* page constructor with its 64-bit page-count arithmetic.                 *)
(***************************************************************************)
EXTENDS Integers, Sequences, FiniteSets, TLC

VARIABLES
    ctx,       \* the *gin.Context of the request: Keys["request_id"], header X-Request-ID
    now,       \* time.Now().Unix()
    call,      \* the exported function the handler called, with its arguments
    sent,      \* what the call did: nothing yet, panicked, or c.JSON(status, &Response{...})
    wire,      \* the JSON object c.JSON rendered into the response body
    pageArgs,  \* the arguments of the last NewPageResponse call
    pageOut    \* its outcome: a *PageResponse, or a runtime panic

vars == <<ctx, now, call, sent, wire, pageArgs, pageOut>>

--------------------------------------------------------------------------
(* Bounds of the model.                                                    *)

MaxClock == 1
MaxTotal == 12
MaxSlack == 3
MaxPageSize == 10
MaxPage == 2

--------------------------------------------------------------------------
(* int64 arithmetic.  An int64 is kept at its full width as its two's      *)
(* complement bit pattern, four 16-bit limbs, least significant first.     *)
(* All operators wrap exactly as Go's int64 operators do.                  *)

Base == 2^16

Int64(n) == <<n % Base, n \div Base, 0, 0>>

Zero64 == Int64(0)

One64 == Int64(1)

MaxInt64 == <<Base - 1, Base - 1, Base - 1, (Base \div 2) - 1>>

Add64(a, b) ==
    LET s1 == a[1] + b[1]
        s2 == a[2] + b[2] + (s1 \div Base)
        s3 == a[3] + b[3] + (s2 \div Base)
        s4 == a[4] + b[4] + (s3 \div Base)
    IN  <<s1 % Base, s2 % Base, s3 % Base, s4 % Base>>

Not64(a) == <<Base - 1 - a[1], Base - 1 - a[2], Base - 1 - a[3], Base - 1 - a[4]>>

Neg64(a) == Add64(Not64(a), One64)

Sub64(a, b) == Add64(a, Neg64(b))

IsNeg64(a) == a[4] >= Base \div 2

\* Unsigned quotient and remainder of a 64-bit pattern by d, 0 < d < 2^15.
UDivMod(a, d) ==
    LET t4 == a[4]
        t3 == (t4 % d) * Base + a[3]
        t2 == (t3 % d) * Base + a[2]
        t1 == (t2 % d) * Base + a[1]
    IN  [quo |-> <<t1 \div d, t2 \div d, t3 \div d, t4 \div d>>, rem |-> t1 % d]

\* Go's signed a / b, truncated toward zero, for a divisor 0 < b < 2^15.
Div64(a, b) ==
    IF IsNeg64(a) THEN Neg64(UDivMod(Neg64(a), b[1]).quo)
    ELSE UDivMod(a, b[1]).quo

--------------------------------------------------------------------------
(* NewPageResponse, src/response.go:219-228.                               *)

\* total + int64(pageSize) - 1, the dividend of line 220.
PageSum(total, pageSize) == Sub64(Add64(total, Int64(pageSize)), One64)

\* The int64 division of line 220 panics on a zero divisor; nothing in
\* the function returns an error value.
NewPageResponse(list, total, page, pageSize) ==
    IF Int64(pageSize) = Zero64
    THEN [outcome |-> "panic", err |-> "runtime error: integer divide by zero"]
    ELSE [outcome |-> "returned",
          ret |-> [List |-> list, Total |-> total, Page |-> page,
                   PageSize |-> pageSize,
                   TotalPages |-> Div64(PageSum(total, pageSize), Int64(pageSize))]]

Lists == {"[]", "[u1,u2]"}

Totals ==
    {Int64(n) : n \in 0 .. MaxTotal} \cup {Int64(95), Int64(100)}
        \cup {Sub64(MaxInt64, Int64(k)) : k \in 0 .. MaxSlack}

PageSizes == 0 .. MaxPageSize

Pages == 1 .. MaxPage

PageInputs ==
    [list : Lists, total : Totals, page : Pages, pageSize : PageSizes]

NoCall == [op |-> "none"]

None == [outcome |-> "none"]

\* A caller applies NewPageResponse to the arguments it holds.
CallNewPageResponse ==
    /\ pageOut = None
    /\ pageOut' = NewPageResponse(pageArgs.list, pageArgs.total, pageArgs.page,
                                  pageArgs.pageSize)
    /\ UNCHANGED <<ctx, now, call, sent, wire, pageArgs>>

--------------------------------------------------------------------------
(* Constants of src/response.go:37-69 and the net/http statuses it uses.   *)

CodeSuccess == 200
CodeBadRequest == 400
CodeUnauthorized == 401
CodeForbidden == 403
CodeNotFound == 404
CodeInternalError == 500

ErrorCodeInvalidParam == "INVALID_PARAM"
ErrorCodeInvalidToken == "INVALID_TOKEN"
ErrorCodeTokenExpired == "TOKEN_EXPIRED"
ErrorCodeUserNotFound == "USER_NOT_FOUND"
ErrorCodeInsufficientPerm == "INSUFFICIENT_PERMISSION"
ErrorCodeInternalError == "INTERNAL_ERROR"

StatusOK == 200
StatusBadRequest == 400
StatusUnauthorized == 401
StatusForbidden == 403
StatusNotFound == 404
StatusInternalServerError == 500
CodeServiceUnavailable == 503

--------------------------------------------------------------------------
(* Go values held in an interface{} field or argument.                     *)

NilValue == [kind |-> "nil"]          \* the nil interface

TypedNil == [kind |-> "typednil"]     \* a nil pointer or nil map inside an interface

NonString == [kind |-> "int", n |-> 42]

Str(s) == [kind |-> "string", s |-> s]

NilError == [kind |-> "nil"]          \* a nil *ErrorInfo

NilPage == [kind |-> "nil"]           \* a nil *PageResponse

\* Passing a *PageResponse as interface{} (Data: page, line 106): a nil
\* pointer becomes a non-nil interface that holds a nil pointer.
PageToInterface(page) ==
    IF page = NilPage THEN TypedNil ELSE [kind |-> "page", page |-> page]

--------------------------------------------------------------------------
(* The request context.                                                    *)

RequestIDs == {"", "req-1", "req-2"}

Contexts ==
    [Keys : {[exists |-> FALSE]}
              \cup {[exists |-> TRUE, value |-> v] :
                        v \in {Str(s) : s \in RequestIDs} \cup {NonString}},
     Header : {[present |-> FALSE]}
              \cup {[present |-> TRUE, value |-> s] : s \in RequestIDs}]

\* c.GetHeader("X-Request-ID"): the empty string when the header is not sent.
GetHeader(c) == IF c.Header.present THEN c.Header.value ELSE ""

\* As getRequestID below, with the lookups in the opposite order.
getRequestID_HeaderFirst(c) ==
    IF c.Header.present THEN [panic |-> FALSE, id |-> c.Header.value]
    ELSE IF c.Keys.exists /\ c.Keys.value.kind = "string"
         THEN [panic |-> FALSE, id |-> c.Keys.value.s]
         ELSE [panic |-> c.Keys.exists, id |-> ""]

\* getRequestID, lines 206-211.  The type assertion requestID.(string) of
\* line 208 panics when the stored value is not a string.
getRequestID(c) ==
    IF c.Keys.exists
    THEN IF c.Keys.value.kind = "string"
         THEN [panic |-> FALSE, id |-> c.Keys.value.s]
         ELSE [panic |-> TRUE, id |-> ""]
    ELSE [panic |-> FALSE, id |-> GetHeader(c)]

--------------------------------------------------------------------------
(* The constructors, lines 74-201.  Each evaluates the Response literal    *)
(* (time.Now().Unix(), then getRequestID(c)) and hands it to c.JSON.       *)

Panicked == [outcome |-> "panic"]

JSON(code, obj) == [outcome |-> "sent", status |-> code, body |-> obj]

\* As SuccessWithMessage below, with the business code left at its zero value.
SuccessWithMessage_NoCode(c, message, data) ==
    IF getRequestID(c).panic THEN Panicked
    ELSE JSON(StatusOK, [Code |-> 0, Message |-> message, Data |-> data,
                         Error |-> NilError, Timestamp |-> now,
                         RequestID |-> getRequestID(c).id])

\* As SuccessWithPage below, with the message argument ignored.
SuccessWithPage_FixedMessage(c, message, page) ==
    IF getRequestID(c).panic THEN Panicked
    ELSE JSON(StatusOK, [Code |-> CodeSuccess, Message |-> "success",
                         Data |-> PageToInterface(page),
                         Error |-> NilError, Timestamp |-> now,
                         RequestID |-> getRequestID(c).id])

\* As Error below, with the error code and the message exchanged.
Error_SwappedFields(c, httpCode, code, errorCode, message) ==
    IF getRequestID(c).panic THEN Panicked
    ELSE JSON(httpCode, [Code |-> code, Message |-> "error", Data |-> NilValue,
                         Error |-> [Code |-> message, Message |-> errorCode,
                                    Details |-> NilValue],
                         Timestamp |-> now, RequestID |-> getRequestID(c).id])

\* As ErrorWithDetails below, with the details stored as the payload.
ErrorWithDetails_DetailsAsData(c, httpCode, code, errorCode, message, details) ==
    IF getRequestID(c).panic THEN Panicked
    ELSE JSON(httpCode, [Code |-> code, Message |-> "error", Data |-> details,
                         Error |-> [Code |-> errorCode, Message |-> message,
                                    Details |-> NilValue],
                         Timestamp |-> now, RequestID |-> getRequestID(c).id])

Success(c, data) ==
    IF getRequestID(c).panic THEN Panicked
    ELSE JSON(StatusOK, [Code |-> CodeSuccess, Message |-> "success", Data |-> data,
                         Error |-> NilError, Timestamp |-> now,
                         RequestID |-> getRequestID(c).id])

SuccessWithMessage(c, message, data) ==
    IF getRequestID(c).panic THEN Panicked
    ELSE JSON(StatusOK, [Code |-> CodeSuccess, Message |-> message, Data |-> data,
                         Error |-> NilError, Timestamp |-> now,
                         RequestID |-> getRequestID(c).id])

SuccessWithPage(c, message, page) ==
    IF getRequestID(c).panic THEN Panicked
    ELSE JSON(StatusOK, [Code |-> CodeSuccess, Message |-> message,
                         Data |-> PageToInterface(page),
                         Error |-> NilError, Timestamp |-> now,
                         RequestID |-> getRequestID(c).id])

Error(c, httpCode, code, errorCode, message) ==
    IF getRequestID(c).panic THEN Panicked
    ELSE JSON(httpCode, [Code |-> code, Message |-> "error", Data |-> NilValue,
                         Error |-> [Code |-> errorCode, Message |-> message,
                                    Details |-> NilValue],
                         Timestamp |-> now, RequestID |-> getRequestID(c).id])

ErrorWithDetails(c, httpCode, code, errorCode, message, details) ==
    IF getRequestID(c).panic THEN Panicked
    ELSE JSON(httpCode, [Code |-> code, Message |-> "error", Data |-> NilValue,
                         Error |-> [Code |-> errorCode, Message |-> message,
                                    Details |-> details],
                         Timestamp |-> now, RequestID |-> getRequestID(c).id])

\* As Forbidden below, with the business code of Unauthorized.
Forbidden_UnauthorizedCode(c, message) ==
    Error(c, StatusForbidden, CodeUnauthorized, ErrorCodeInsufficientPerm, message)

BadRequest(c, message) ==
    Error(c, StatusBadRequest, CodeBadRequest, ErrorCodeInvalidParam, message)

BadRequestWithDetails(c, message, details) ==
    ErrorWithDetails(c, StatusBadRequest, CodeBadRequest, ErrorCodeInvalidParam,
                     message, details)

Unauthorized(c, message) ==
    Error(c, StatusUnauthorized, CodeUnauthorized, ErrorCodeInvalidToken, message)

Forbidden(c, message) ==
    Error(c, StatusForbidden, CodeForbidden, ErrorCodeInsufficientPerm, message)

NotFound(c, message) ==
    Error(c, StatusNotFound, CodeNotFound, ErrorCodeUserNotFound, message)

InternalError(c, message) ==
    Error(c, StatusInternalServerError, CodeInternalError, ErrorCodeInternalError,
          message)

BusinessError(c, errorCode, message) ==
    Error(c, StatusBadRequest, CodeBadRequest, errorCode, message)

--------------------------------------------------------------------------
(* encoding/json on the tagged structs, lines 11-34.                       *)

JNull == [t |-> "null"]

JNum(n) == [t |-> "number", v |-> n]

JStr(s) == [t |-> "string", v |-> s]

JObj(f) == [t |-> "object", v |-> f]

NoFields == [k \in {} |-> JNull]

Field(name, value) == name :> value

\* omitempty on an interface{} or pointer field drops it only when the
\* field itself is nil (reflect's IsNil); any other content is encoded.
OmitEmptyField(name, v, encoded) ==
    IF v = NilValue THEN NoFields ELSE Field(name, encoded)

MarshalPage(p) ==
    Field("list", JStr(p.List)) @@ Field("total", JNum(p.Total))
        @@ Field("page", JNum(p.Page)) @@ Field("page_size", JNum(p.PageSize))
        @@ Field("total_pages", JNum(p.TotalPages))

\* The encoding of the content of an interface{}; a nil pointer encodes as null.
MarshalValue(v) ==
    CASE v.kind = "typednil" -> JNull
      [] v.kind = "string" -> JStr(v.s)
      [] v.kind = "page" -> JObj(MarshalPage(v.page))
      [] OTHER -> JNull

MarshalErrorInfo(e) ==
    Field("code", JStr(e.Code)) @@ Field("message", JStr(e.Message))
        @@ OmitEmptyField("details", e.Details, MarshalValue(e.Details))

MarshalResponse(r) ==
    Field("code", JNum(r.Code)) @@ Field("message", JStr(r.Message))
        @@ OmitEmptyField("data", r.Data, MarshalValue(r.Data))
        @@ (IF r.Error = NilError THEN NoFields
            ELSE Field("error", JObj(MarshalErrorInfo(r.Error))))
        @@ Field("timestamp", JNum(r.Timestamp))
        @@ (IF r.RequestID = "" THEN NoFields
            ELSE Field("request_id", JStr(r.RequestID)))

\* Decoding into interface{}: null gives nil, a string a string, an object a map.
UnmarshalValue(j) ==
    CASE j.t = "null" -> NilValue
      [] j.t = "string" -> Str(j.v)
      [] OTHER -> [kind |-> "map", m |-> j.v]

UnmarshalOptional(obj, name) ==
    IF name \in DOMAIN obj THEN UnmarshalValue(obj[name]) ELSE NilValue

UnmarshalErrorInfo(obj) ==
    [Code |-> obj["code"].v, Message |-> obj["message"].v,
     Details |-> UnmarshalOptional(obj, "details")]

\* Decoding the body into a Response; a missing key leaves the zero value.
UnmarshalResponse(obj) ==
    [Code |-> IF "code" \in DOMAIN obj THEN obj["code"].v ELSE 0,
     Message |-> IF "message" \in DOMAIN obj THEN obj["message"].v ELSE "",
     Data |-> UnmarshalOptional(obj, "data"),
     Error |-> IF "error" \in DOMAIN obj /\ obj["error"] # JNull
               THEN UnmarshalErrorInfo(obj["error"].v) ELSE NilError,
     Timestamp |-> IF "timestamp" \in DOMAIN obj THEN obj["timestamp"].v ELSE 0,
     RequestID |-> IF "request_id" \in DOMAIN obj THEN obj["request_id"].v ELSE ""]

--------------------------------------------------------------------------
(* The calls a handler makes.  A handler ends with one constructor call,   *)
(* which writes the status and the rendered body through the context.      *)

Messages == {"", "ok", "bad input"}

Payloads == {NilValue, TypedNil, Str(""), Str("user-1")}

DetailValues == {NilValue, TypedNil, Str("name: required")}

PagePointers ==
    {NilPage} \cup {NewPageResponse("[u1,u2]", Int64(t), 1, 10).ret : t \in {2, 95}}

HTTPCodes == {StatusOK, StatusBadRequest, CodeServiceUnavailable}

BusinessCodes == {CodeBadRequest, 1001}

CustomErrorCodes == {ErrorCodeTokenExpired, "UPDATE_FAILED"}

Respond(c, result) ==
    /\ sent = None
    /\ call' = c
    /\ sent' = result
    /\ wire' = IF result.outcome = "sent" THEN MarshalResponse(result.body) ELSE NoFields
    /\ UNCHANGED <<ctx, now, pageArgs, pageOut>>

CallSuccess ==
    \E data \in Payloads :
        Respond([op |-> "Success", data |-> data], Success(ctx, data))

CallSuccessWithMessage ==
    \E message \in Messages, data \in Payloads :
        Respond([op |-> "SuccessWithMessage", message |-> message, data |-> data],
                SuccessWithMessage(ctx, message, data))

CallSuccessWithPage ==
    \E message \in Messages, page \in PagePointers :
        Respond([op |-> "SuccessWithPage", message |-> message, page |-> page],
                SuccessWithPage(ctx, message, page))

CallError ==
    \E httpCode \in HTTPCodes, code \in BusinessCodes,
       errorCode \in CustomErrorCodes, message \in Messages :
        Respond([op |-> "Error", httpCode |-> httpCode, code |-> code,
                 errorCode |-> errorCode, message |-> message],
                Error(ctx, httpCode, code, errorCode, message))

CallErrorWithDetails ==
    \E httpCode \in HTTPCodes, code \in BusinessCodes,
       errorCode \in CustomErrorCodes, message \in Messages,
       details \in DetailValues :
        Respond([op |-> "ErrorWithDetails", httpCode |-> httpCode, code |-> code,
                 errorCode |-> errorCode, message |-> message, details |-> details],
                ErrorWithDetails(ctx, httpCode, code, errorCode, message, details))

CallBadRequest ==
    \E message \in Messages :
        Respond([op |-> "BadRequest", message |-> message], BadRequest(ctx, message))

CallBadRequestWithDetails ==
    \E message \in Messages, details \in DetailValues :
        Respond([op |-> "BadRequestWithDetails", message |-> message,
                 details |-> details],
                BadRequestWithDetails(ctx, message, details))

CallUnauthorized ==
    \E message \in Messages :
        Respond([op |-> "Unauthorized", message |-> message],
                Unauthorized(ctx, message))

CallForbidden ==
    \E message \in Messages :
        Respond([op |-> "Forbidden", message |-> message], Forbidden(ctx, message))

CallNotFound ==
    \E message \in Messages :
        Respond([op |-> "NotFound", message |-> message], NotFound(ctx, message))

CallInternalError ==
    \E message \in Messages :
        Respond([op |-> "InternalError", message |-> message],
                InternalError(ctx, message))

CallBusinessError ==
    \E errorCode \in CustomErrorCodes, message \in Messages :
        Respond([op |-> "BusinessError", errorCode |-> errorCode,
                 message |-> message],
                BusinessError(ctx, errorCode, message))

\* The clock read by time.Now() advances between calls.
Tick ==
    /\ now < MaxClock
    /\ now' = now + 1
    /\ UNCHANGED <<ctx, call, sent, wire, pageArgs, pageOut>>

--------------------------------------------------------------------------

EmptyContext == [Keys |-> [exists |-> FALSE], Header |-> [present |-> FALSE]]

Init ==
    /\ ctx \in Contexts
    /\ now = 0
    /\ call = NoCall
    /\ sent = None
    /\ wire = NoFields
    /\ pageArgs = NoCall
    /\ pageOut = None

Next ==
    \/ Tick
    \/ CallSuccess
    \/ CallSuccessWithMessage
    \/ CallSuccessWithPage
    \/ CallError
    \/ CallErrorWithDetails
    \/ CallBadRequest
    \/ CallBadRequestWithDetails
    \/ CallUnauthorized
    \/ CallForbidden
    \/ CallNotFound
    \/ CallInternalError
    \/ CallBusinessError

Spec == Init /\ [][Next]_vars

InitPage ==
    /\ ctx = EmptyContext
    /\ now = 0
    /\ call = NoCall
    /\ sent = None
    /\ wire = NoFields
    /\ pageArgs \in PageInputs
    /\ pageOut = None

NextPage == CallNewPageResponse

SpecPage == InitPage /\ [][NextPage]_vars

--------------------------------------------------------------------------
(* Properties.                                                             *)

Sent == sent.outcome = "sent"

SuccessOps == {"Success", "SuccessWithMessage", "SuccessWithPage"}

PlainErrorOps ==
    {"Error", "BadRequest", "Unauthorized", "Forbidden", "NotFound",
     "InternalError", "BusinessError"}

DetailErrorOps == {"ErrorWithDetails", "BadRequestWithDetails"}

ErrorOps == PlainErrorOps \cup DetailErrorOps

\* The envelope went out at this status, business code and error code, with
\* the caller's message as error.message.
Triple(status, code, errorCode) ==
    /\ sent.status = status
    /\ sent.body.Code = code
    /\ sent.body.Error # NilError
    /\ sent.body.Error.Code = errorCode
    /\ sent.body.Error.Message = call.message

\* C1: each shortcut constructor emits the fixed (transport status, business
\* code, error code) triple of the table, with error.message the supplied
\* message; BusinessError emits (400, 400, the caller's errorCode).
C1_ShortcutTriples ==
    Sent =>
        /\ call.op \in {"BadRequest", "BadRequestWithDetails"}
              => Triple(400, 400, "INVALID_PARAM")
        /\ call.op = "Unauthorized" => Triple(401, 401, "INVALID_TOKEN")
        /\ call.op = "Forbidden" => Triple(403, 403, "INSUFFICIENT_PERMISSION")
        /\ call.op = "NotFound" => Triple(404, 404, "USER_NOT_FOUND")
        /\ call.op = "InternalError" => Triple(500, 500, "INTERNAL_ERROR")
        /\ call.op = "BusinessError" => Triple(400, 400, call.errorCode)

C1_Witness ==
    /\ Sent
    /\ call.op = "Forbidden"
    /\ call.message = "bad input"
    /\ sent.status = 403

\* C2: the request_id of an emitted envelope is the value under the context
\* key request_id when the key is present (whatever the header holds), else
\* the X-Request-ID header, else the empty string.
C2_RequestIDPrecedence ==
    Sent =>
        IF ctx.Keys.exists THEN ctx.Keys.value = Str(sent.body.RequestID)
        ELSE IF ctx.Header.present THEN sent.body.RequestID = ctx.Header.value
        ELSE sent.body.RequestID = ""

C2_Witness ==
    /\ Sent
    /\ ctx.Keys.exists
    /\ ctx.Header.present
    /\ ctx.Header.value = "req-2"
    /\ ctx.Keys.value = Str("req-1")
    /\ sent.body.RequestID = "req-1"

\* The page count as the mathematical ceiling of total / d, for total >= 0.
CeilDiv(total, d) ==
    LET qr == UDivMod(total, d)
    IN  IF qr.rem = 0 THEN qr.quo ELSE Add64(qr.quo, One64)

PageReturned == pageOut.outcome = "returned"

\* C3: for every total >= 0 and every pageSize > 0 the returned TotalPages
\* is ceil(total / pageSize).
C3_TotalPagesIsCeil ==
    (PageReturned /\ ~IsNeg64(pageArgs.total) /\ pageArgs.pageSize > 0) =>
        pageOut.ret.TotalPages = CeilDiv(pageArgs.total, pageArgs.pageSize)

\* C4: with pageSize = 0 the call ends in a validation error, not in the
\* fault of the division.
C4_ZeroPageSizeRejected ==
    (pageOut # None /\ pageArgs.pageSize = 0) =>
        pageOut.outcome = "validation error"

\* C5: a success constructor emits, at transport status 200, an envelope
\* with business code 200 and no error.
C5_SuccessStatus ==
    (Sent /\ call.op \in SuccessOps) =>
        /\ sent.status = 200
        /\ sent.body.Code = 200
        /\ sent.body.Error = NilError
        /\ "error" \notin DOMAIN wire
        /\ wire["code"] = JNum(200)

C5_Witness ==
    /\ Sent
    /\ call.op = "SuccessWithMessage"
    /\ call.data = Str("user-1")
    /\ sent.status = 200

\* C6: an error constructor emits an envelope without data whose error.code
\* and error.message are the supplied values; Error and ErrorWithDetails emit
\* at the supplied transport status with the supplied business code;
\* error.details is unset for Error and the supplied details for
\* ErrorWithDetails.
C6_ErrorFields ==
    (Sent /\ call.op \in ErrorOps) =>
        /\ sent.body.Data = NilValue
        /\ "data" \notin DOMAIN wire
        /\ sent.body.Error # NilError
        /\ sent.body.Error.Message = call.message
        /\ call.op \in {"Error", "ErrorWithDetails", "BusinessError"}
              => sent.body.Error.Code = call.errorCode
        /\ call.op \in {"Error", "ErrorWithDetails"}
              => sent.status = call.httpCode /\ sent.body.Code = call.code
        /\ call.op \in PlainErrorOps => sent.body.Error.Details = NilValue
        /\ call.op \in DetailErrorOps => sent.body.Error.Details = call.details

C6_Witness ==
    /\ Sent
    /\ call.op = "ErrorWithDetails"
    /\ call.details = Str("name: required")
    /\ call.httpCode = 503
    /\ call.code = 1001
    /\ call.message = "bad input"

\* A payload that carries something: neither the nil interface nor a nil pointer.
DataPopulated == sent.body.Data \notin {NilValue, TypedNil}

ErrorPopulated == sent.body.Error # NilError

\* C7 as stated: every emitted envelope has exactly one of data and error
\* populated, never both and never neither.
C7_ExactlyOne ==
    Sent => (DataPopulated /\ ~ErrorPopulated) \/ (~DataPopulated /\ ErrorPopulated)

\* The payload argument of a success call, as it reaches the Data field.
SuccessPayload ==
    IF call.op = "SuccessWithPage" THEN PageToInterface(call.page) ELSE call.data

\* C7 amended: no emitted envelope has both data and error populated; a
\* success envelope never sets error, an error envelope sets error and omits
\* data; an envelope has neither exactly when a success constructor was given
\* a nil payload.
C7_AtMostOne ==
    Sent =>
        /\ ~(DataPopulated /\ ErrorPopulated)
        /\ call.op \in SuccessOps => ~ErrorPopulated
        /\ call.op \in ErrorOps => ErrorPopulated /\ sent.body.Data = NilValue
        /\ (~DataPopulated /\ ~ErrorPopulated)
              <=> (call.op \in SuccessOps /\ SuccessPayload \in {NilValue, TypedNil})

C7_Witness ==
    /\ Sent
    /\ call.op = "Success"
    /\ call.data = NilValue
    /\ ~DataPopulated
    /\ ~ErrorPopulated

\* C8: the body decodes back to the populated fields of the envelope, and it
\* omits data when the payload is absent or null, error when there is no
\* error, error.details when absent or null, request_id when empty; code,
\* message and timestamp are always present.
C8_RoundTripOmitsUnset ==
    Sent =>
        LET r == sent.body
            back == UnmarshalResponse(wire)
        IN  /\ {"code", "message", "timestamp"} \subseteq DOMAIN wire
            /\ back.Code = r.Code
            /\ back.Message = r.Message
            /\ back.Timestamp = r.Timestamp
            /\ back.RequestID = r.RequestID
            /\ "request_id" \in DOMAIN wire <=> r.RequestID # ""
            /\ "error" \in DOMAIN wire <=> r.Error # NilError
            /\ "data" \in DOMAIN wire <=> r.Data \notin {NilValue, TypedNil}
            /\ r.Data.kind = "string" => back.Data = r.Data
            /\ r.Error # NilError =>
                  /\ back.Error.Code = r.Error.Code
                  /\ back.Error.Message = r.Error.Message
                  /\ "details" \in DOMAIN wire["error"].v
                        <=> r.Error.Details \notin {NilValue, TypedNil}

\* C9: the envelope-level message is "error" for every error constructor,
\* "success" for Success, and the caller's message for SuccessWithMessage
\* and SuccessWithPage.
C9_EnvelopeMessage ==
    Sent =>
        /\ call.op \in ErrorOps => sent.body.Message = "error"
        /\ call.op = "Success" => sent.body.Message = "success"
        /\ call.op \in {"SuccessWithMessage", "SuccessWithPage"}
              => sent.body.Message = call.message
        /\ wire["message"] = JStr(sent.body.Message)

C9_Witness ==
    /\ Sent
    /\ call.op = "SuccessWithPage"
    /\ call.message = "ok"
    /\ call.page # NilPage

\* Unsigned product of a 64-bit pattern and d, 0 < d < 2^15, as five limbs.
UMul(a, d) ==
    LET p1 == a[1] * d
        p2 == a[2] * d + (p1 \div Base)
        p3 == a[3] * d + (p2 \div Base)
        p4 == a[4] * d + (p3 \div Base)
    IN  <<p1 % Base, p2 % Base, p3 % Base, p4 % Base, p4 \div Base>>

RECURSIVE UGeq(_, _, _)
\* a >= b for limb sequences compared from limb i down.
UGeq(a, b, i) ==
    IF i = 0 THEN TRUE
    ELSE IF a[i] # b[i] THEN a[i] > b[i]
    ELSE UGeq(a, b, i - 1)

\* C10: for 0 <= total <= 2^63 - 1 and pageSize >= 1 the sum
\* total + pageSize - 1 does not wrap around, so TotalPages is not negative
\* and TotalPages * pageSize >= total.
C10_SumDoesNotWrap ==
    (PageReturned /\ ~IsNeg64(pageArgs.total) /\ pageArgs.pageSize >= 1) =>
        /\ ~IsNeg64(PageSum(pageArgs.total, pageArgs.pageSize))
        /\ ~IsNeg64(pageOut.ret.TotalPages)
        /\ UGeq(UMul(pageOut.ret.TotalPages, pageArgs.pageSize),
                pageArgs.total \o <<0>>, 5)

====
